---- MODULE Spec2Model ----
(***************************************************************************)
(* Model of the in-memory simulation store and the simulation endpoints of *)
(* api/routes/simulations.py (SimulationStore, create_simulation,          *)
(* run_simulation_step, run_simulation, delete_simulation) together with   *)
(* SimulationService.validate_simulation_config.                           *)
(*                                                                         *)
(* Real-valued quantities (rates, periods, days) are kept as integers in   *)
(* thousandths, so 0.5 day is 500.  A draw `random.random() < p` is a      *)
(* nondeterministic choice: it can succeed iff p > 0 and can fail iff      *)
(* p < 1 (random.random() ranges over [0, 1)).                             *)
(* The handlers are `async def` without any await, so each one runs to     *)
(* completion on the event loop; the loop of run_simulation is unfolded    *)
(* one iteration per step with a program counter in `req`.                 *)
(***************************************************************************)
EXTENDS Integers, Sequences, FiniteSets, TLC

VARIABLES
    sims,     \* SimulationStore._simulations : sim_id -> simulation dict
    issued,   \* identifiers uuid4 has produced so far
    req,      \* the run_simulation request being served: its loop position and
              \* locals, kept until its response is delivered
    served,   \* state-changing operations executed so far (creates, steps, deletes)
    resp,     \* the response on its way to the client
    call,     \* the library function being evaluated on its own: its name, its
              \* arguments and, once it has returned, its result
    walker    \* one agent dict of `for agent in agents`, position included

vars == <<sims, issued, req, served, resp, call, walker>>

----------------------------------------------------------------------------
(* Bounds of the model *)

MaxServed == 4    \* state-changing operations (create, step, delete) in a run
MaxAgentSteps == 2    \* steps one agent is followed through on its own
MaxTicks == 3         \* steps of the simulation whose agents are followed
MaxSeriesLen == 5     \* samples of an infected series given to the analytics

Unit == 1000      \* one unit (1.0) in thousandths

States == {"S", "E", "I", "R", "D"}

----------------------------------------------------------------------------
(* Configurations (SimulationConfigRequest) *)

DefaultConfig ==
    [population_size |-> 10, grid_size |-> 100000, initial_infected |-> 1,
     infection_rate |-> 1000, incubation_mean |-> 5000, incubation_std |-> 2000,
     infectious_mean |-> 7000, infectious_std |-> 3000, mortality_rate |-> 20,
     interaction_radius |-> 2000, vaccination_rate |-> 0,
     detection_probability |-> 0, isolation_compliance |-> 800,
     home_attraction |-> 50, random_movement |-> 1000, time_step |-> 500]

\* every susceptible is infected in the first step, every period lasts one step
FastConfig ==
    [DefaultConfig EXCEPT !.initial_infected = 2, !.infection_rate = 5000,
                          !.incubation_mean = 1000, !.infectious_mean = 1000,
                          !.mortality_rate = 500, !.time_step = 1000]

\* no transmission, the only infected agent recovers in the first step
ZeroRateConfig ==
    [DefaultConfig EXCEPT !.infection_rate = 0, !.infectious_mean = 1000,
                          !.mortality_rate = 0, !.time_step = 1000]

\* passes the field constraints of the schema, fails the validator
AllInfectedConfig == [DefaultConfig EXCEPT !.initial_infected = 10]

\* every draw of a step is open: 0 < p < 1 for infection, incubation, recovery
GeneralConfig == [DefaultConfig EXCEPT !.initial_infected = 9, !.mortality_rate = 0]

ConfigRequests == {GeneralConfig, FastConfig, ZeroRateConfig, AllInfectedConfig}

\* validate_simulation_config with the time step checked before the radius
validate_time_step_before_radius(config) ==
    IF ~(10 <= config.population_size /\ config.population_size <= 10000)
    THEN <<FALSE, "Population size must be between 10 and 10000">>
    ELSE IF ~(20 * Unit <= config.grid_size /\ config.grid_size <= 500 * Unit)
    THEN <<FALSE, "Grid size must be between 20 and 500">>
    ELSE IF ~(0 <= config.infection_rate /\ config.infection_rate <= 5 * Unit)
    THEN <<FALSE, "Infection rate (beta) must be between 0 and 5">>
    ELSE IF config.incubation_mean <= 0 \/ config.incubation_std < 0
    THEN <<FALSE, "Incubation period mean must be > 0 and std >= 0">>
    ELSE IF config.infectious_mean <= 0 \/ config.infectious_std < 0
    THEN <<FALSE, "Infectious period mean must be > 0 and std >= 0">>
    ELSE IF ~(0 <= config.mortality_rate /\ config.mortality_rate <= Unit)
    THEN <<FALSE, "Mortality rate must be between 0 and 1">>
    ELSE IF ~(0 <= config.vaccination_rate /\ config.vaccination_rate <= Unit)
    THEN <<FALSE, "Vaccination rate must be between 0 and 1">>
    ELSE IF ~(0 <= config.detection_probability /\ config.detection_probability <= Unit)
    THEN <<FALSE, "Detection probability must be between 0 and 1">>
    ELSE IF ~(0 <= config.isolation_compliance /\ config.isolation_compliance <= Unit)
    THEN <<FALSE, "Isolation compliance must be between 0 and 1">>
    ELSE IF ~(0 < config.time_step /\ config.time_step <= Unit)
    THEN <<FALSE, "Time step must be between 0 and 1">>
    ELSE IF config.interaction_radius <= 0
    THEN <<FALSE, "Interaction radius must be > 0">>
    ELSE IF config.home_attraction < 0
    THEN <<FALSE, "Home attraction must be >= 0">>
    ELSE IF config.random_movement < 0
    THEN <<FALSE, "Random movement must be >= 0">>
    ELSE IF config.incubation_mean + config.infectious_mean > 365 * Unit
    THEN <<FALSE, "Total disease duration exceeds 1 year">>
    ELSE IF config.initial_infected >= config.population_size
    THEN <<FALSE, "Initial infected must be less than population size">>
    ELSE IF ~(1 <= config.initial_infected /\ config.initial_infected < config.population_size)
    THEN <<FALSE, "Initial infected must be at least 1 and less than population size">>
    ELSE <<TRUE, "None">>

validate_simulation_config(config) ==
    IF ~(10 <= config.population_size /\ config.population_size <= 10000)
    THEN <<FALSE, "Population size must be between 10 and 10000">>
    ELSE IF ~(20 * Unit <= config.grid_size /\ config.grid_size <= 500 * Unit)
    THEN <<FALSE, "Grid size must be between 20 and 500">>
    ELSE IF ~(0 <= config.infection_rate /\ config.infection_rate <= 5 * Unit)
    THEN <<FALSE, "Infection rate (beta) must be between 0 and 5">>
    ELSE IF config.incubation_mean <= 0 \/ config.incubation_std < 0
    THEN <<FALSE, "Incubation period mean must be > 0 and std >= 0">>
    ELSE IF config.infectious_mean <= 0 \/ config.infectious_std < 0
    THEN <<FALSE, "Infectious period mean must be > 0 and std >= 0">>
    ELSE IF ~(0 <= config.mortality_rate /\ config.mortality_rate <= Unit)
    THEN <<FALSE, "Mortality rate must be between 0 and 1">>
    ELSE IF ~(0 <= config.vaccination_rate /\ config.vaccination_rate <= Unit)
    THEN <<FALSE, "Vaccination rate must be between 0 and 1">>
    ELSE IF ~(0 <= config.detection_probability /\ config.detection_probability <= Unit)
    THEN <<FALSE, "Detection probability must be between 0 and 1">>
    ELSE IF ~(0 <= config.isolation_compliance /\ config.isolation_compliance <= Unit)
    THEN <<FALSE, "Isolation compliance must be between 0 and 1">>
    ELSE IF config.interaction_radius <= 0
    THEN <<FALSE, "Interaction radius must be > 0">>
    ELSE IF ~(0 < config.time_step /\ config.time_step <= Unit)
    THEN <<FALSE, "Time step must be between 0 and 1">>
    ELSE IF config.home_attraction < 0
    THEN <<FALSE, "Home attraction must be >= 0">>
    ELSE IF config.random_movement < 0
    THEN <<FALSE, "Random movement must be >= 0">>
    ELSE IF config.incubation_mean + config.infectious_mean > 365 * Unit
    THEN <<FALSE, "Total disease duration exceeds 1 year">>
    ELSE IF config.initial_infected >= config.population_size
    THEN <<FALSE, "Initial infected must be less than population size">>
    ELSE IF ~(1 <= config.initial_infected /\ config.initial_infected < config.population_size)
    THEN <<FALSE, "Initial infected must be at least 1 and less than population size">>
    ELSE <<TRUE, "None">>

----------------------------------------------------------------------------
(* SimulationStore.create *)

\* create_mock_agents that seeds one infected agent too many
create_mock_agents_off_by_one(config) ==
    [k \in 1..config.population_size |->
        [id |-> k - 1,
         state |-> IF k - 1 <= config.initial_infected THEN "I" ELSE "S",
         days_in_state |-> 0,
         is_isolated |-> FALSE]]

\* agents 0..population_size-1 are kept at positions 1..population_size
create_mock_agents(config) ==
    [k \in 1..config.population_size |->
        [id |-> k - 1,
         state |-> IF k - 1 < config.initial_infected THEN "I" ELSE "S",
         days_in_state |-> 0,
         is_isolated |-> FALSE]]

create(sim_id, config) ==
    [id |-> sim_id,
     config |-> config,
     status |-> "created",
     current_day |-> 0,
     total_steps |-> 0,
     stats |-> [S |-> <<config.population_size - config.initial_infected>>,
                E |-> <<0>>,
                I |-> <<config.initial_infected>>,
                R |-> <<0>>,
                D |-> <<0>>],
     rt_history |-> <<0>>,
     agents |-> create_mock_agents(config)]

----------------------------------------------------------------------------
(* SimulationStore.run_step *)

Last(s) == s[Len(s)]

Max(a, b) == IF a >= b THEN a ELSE b

Min(a, b) == IF a <= b THEN a ELSE b

\* number of successes of n draws `random.random() < p`, p = p_num / p_den
draws(n, p_num, p_den) ==
    {k \in 0..n : (k > 0 => p_num > 0) /\ (k < n => p_num < p_den)}

\* new_infections_draws whose draws can succeed whatever the infection rate
new_infections_draws_ignores_rate(config, current_s, current_i) ==
    IF current_i > 0 /\ current_s > 0 THEN 0..current_s ELSE {0}

\* infection_prob = infection_rate * current_i / population_size * dt
new_infections_draws(config, current_s, current_i) ==
    IF current_i > 0 /\ current_s > 0
    THEN draws(current_s, config.infection_rate * current_i * config.time_step,
               config.population_size * Unit * Unit)
    ELSE {0}

\* transition_prob = dt / incubation_mean
e_to_i_draws(config, current_e) ==
    IF current_e > 0
    THEN draws(current_e, config.time_step, config.incubation_mean)
    ELSE {0}

\* agents leaving I: transition_prob = dt / infectious_mean
i_leaving_draws(config, current_i) ==
    IF current_i > 0
    THEN draws(current_i, config.time_step, config.infectious_mean)
    ELSE {0}

\* of the agents leaving I, those for which random.random() < mortality_rate
i_to_d_draws(config, leaving) == draws(leaving, config.mortality_rate, Unit)

\* update_counts that stores this step's recoveries instead of adding them
update_counts_resets_recovered(config, cur, new_infections, e_to_i, i_to_r, i_to_d) ==
    LET new_s == Max(0, cur.S - new_infections)
        new_e == Max(0, cur.E + new_infections - e_to_i)
        new_i == Max(0, cur.I + e_to_i - i_to_r - i_to_d)
        new_r == i_to_r
        new_d == cur.D + i_to_d
        total == new_s + new_e + new_i + new_r + new_d
    IN  [S |-> IF total # config.population_size
               THEN config.population_size - new_e - new_i - new_r - new_d
               ELSE new_s,
         E |-> new_e, I |-> new_i, R |-> new_r, D |-> new_d]

\* update_counts with the deceased not taken out of the infected
update_counts_keeps_dead(config, cur, new_infections, e_to_i, i_to_r, i_to_d) ==
    LET new_s == Max(0, cur.S - new_infections)
        new_e == Max(0, cur.E + new_infections - e_to_i)
        new_i == Max(0, cur.I + e_to_i - i_to_r)
        new_r == cur.R + i_to_r
        new_d == cur.D + i_to_d
        total == new_s + new_e + new_i + new_r + new_d
    IN  [S |-> IF total # config.population_size
               THEN config.population_size - new_e - new_i - new_r - new_d
               ELSE new_s,
         E |-> new_e, I |-> new_i, R |-> new_r, D |-> new_d]

update_counts(config, cur, new_infections, e_to_i, i_to_r, i_to_d) ==
    LET new_s == Max(0, cur.S - new_infections)
        new_e == Max(0, cur.E + new_infections - e_to_i)
        new_i == Max(0, cur.I + e_to_i - i_to_r - i_to_d)
        new_r == cur.R + i_to_r
        new_d == cur.D + i_to_d
        total == new_s + new_e + new_i + new_r + new_d
    IN  [S |-> IF total # config.population_size
               THEN config.population_size - new_e - new_i - new_r - new_d
               ELSE new_s,
         E |-> new_e, I |-> new_i, R |-> new_r, D |-> new_d]

\* append_counts of a step that read the history before another step's entry
\* was appended and writes over that entry
append_counts_overwrites(stats, new) ==
    [S |-> Append(SubSeq(stats.S, 1, Len(stats.S) - 1), new.S),
     E |-> Append(SubSeq(stats.E, 1, Len(stats.E) - 1), new.E),
     I |-> Append(SubSeq(stats.I, 1, Len(stats.I) - 1), new.I),
     R |-> Append(SubSeq(stats.R, 1, Len(stats.R) - 1), new.R),
     D |-> Append(SubSeq(stats.D, 1, Len(stats.D) - 1), new.D)]

append_counts(stats, new) ==
    [S |-> Append(stats.S, new.S), E |-> Append(stats.E, new.E),
     I |-> Append(stats.I, new.I), R |-> Append(stats.R, new.R),
     D |-> Append(stats.D, new.D)]

\* rt = (new_infections / dt) / current_i * infectious_mean, in thousandths
mock_rt(config, current_i, new_infections) ==
    IF current_i > 0
    THEN (new_infections * config.infectious_mean * Unit)
             \div (config.time_step * current_i)
    ELSE 0

\* append_rt that records nothing for a step without infected agents
append_rt_skips_zero(rt_history, rt) ==
    IF rt = 0 THEN rt_history ELSE Append(rt_history, rt)

append_rt(rt_history, rt) == Append(rt_history, rt)

TransitionOrder == <<"D", "R", "I", "E", "S">>

\* first state of TransitionOrder, from position k on, that still has room
RECURSIVE first_with_room(_, _, _)
first_with_room(state_counts, targets, k) ==
    IF k > Len(TransitionOrder) THEN "none"
    ELSE IF state_counts[TransitionOrder[k]] < targets[TransitionOrder[k]]
         THEN TransitionOrder[k]
         ELSE first_with_room(state_counts, targets, k + 1)

\* agent_destination of a loop that never moves an agent
agent_destination_keeps_state(agent, state_counts, targets) == agent.state

\* the state the loop body counts the agent in: its own while it has room,
\* else the first state with room ("none": the agent is left uncounted)
agent_destination(agent, state_counts, targets) ==
    IF state_counts[agent.state] < targets[agent.state]
    THEN agent.state
    ELSE first_with_room(state_counts, targets, 1)

\* the body of `for agent in agents` for one agent (positions are not kept)
update_agent(agent, dest, dt) ==
    IF dest = agent.state \/ dest = "none"
    THEN [agent EXCEPT !.days_in_state = @ + dt]
    ELSE [agent EXCEPT !.state = dest, !.days_in_state = 0 + dt]

\* the loop over the agents, from agent k on, with the running state_counts
RECURSIVE update_agents(_, _, _, _, _)
update_agents(agents, k, state_counts, targets, dt) ==
    IF k > Len(agents) THEN agents
    ELSE LET dest == agent_destination(agents[k], state_counts, targets)
         IN  update_agents(
                 [agents EXCEPT ![k] = update_agent(agents[k], dest, dt)],
                 k + 1,
                 IF dest = "none" THEN state_counts
                 ELSE [state_counts EXCEPT ![dest] = @ + 1],
                 targets, dt)

\* status_after_step that looks at the infected count only
status_after_step_infected_only(new_i, new_e) ==
    IF new_i = 0 THEN "completed" ELSE "running"

status_after_step(new_i, new_e) ==
    IF new_i = 0 /\ new_e = 0 THEN "completed" ELSE "running"

CurrentCounts(sim) ==
    [S |-> Last(sim.stats.S), E |-> Last(sim.stats.E), I |-> Last(sim.stats.I),
     R |-> Last(sim.stats.R), D |-> Last(sim.stats.D)]

run_step(sim, new_infections, e_to_i, i_to_r, i_to_d) ==
    LET config == sim.config
        dt == config.time_step
        cur == CurrentCounts(sim)
        new == update_counts(config, cur, new_infections, e_to_i, i_to_r, i_to_d)
    IN  [sim EXCEPT
            !.current_day = @ + dt,
            !.total_steps = @ + 1,
            !.stats = append_counts(@, new),
            !.rt_history = append_rt(@, mock_rt(config, cur.I, new_infections)),
            !.agents = update_agents(@, 1, [s \in States |-> 0], new, dt),
            !.status = status_after_step(new.I, new.E)]

\* the simulations run_step can leave sim in, over all outcomes of the draws
run_step_results(sim) ==
    LET cur == CurrentCounts(sim)
    IN  {run_step(sim, ni, ei, lv - dd, dd) :
            <<ni, ei, lv, dd>> \in
                {t \in new_infections_draws(sim.config, cur.S, cur.I)
                         \X e_to_i_draws(sim.config, cur.E)
                         \X i_leaving_draws(sim.config, cur.I)
                         \X (0..cur.I) :
                    t[4] \in i_to_d_draws(sim.config, t[3])}}

----------------------------------------------------------------------------
(* Responses *)

NoState ==
    [status |-> "none", current_day |-> 0, total_steps |-> 0,
     susceptible |-> 0, exposed |-> 0, infected |-> 0, recovered |-> 0,
     deceased |-> 0, history_len |-> 0, rt_len |-> 0]

\* the fields of SimulationState the properties read
build_simulation_state(sim_data) ==
    [status |-> sim_data.status,
     current_day |-> sim_data.current_day,
     total_steps |-> sim_data.total_steps,
     susceptible |-> Last(sim_data.stats.S),
     exposed |-> Last(sim_data.stats.E),
     infected |-> Last(sim_data.stats.I),
     recovered |-> Last(sim_data.stats.R),
     deceased |-> Last(sim_data.stats.D),
     history_len |-> Len(sim_data.stats.S),
     rt_len |-> Len(sim_data.rt_history)]

Response(op, id, code, detail, state) ==
    [op |-> op, id |-> id, code |-> code, detail |-> detail, state |-> state]

\* no response is on its way to the client
NoResponse == Response("none", 0, 0, "", NoState)

\* entry_steps and entry_len record total_steps and the history length the
\* simulation had when run_simulation was entered
NoRequest ==
    [pc |-> "idle", id |-> 0, max_steps |-> 0, stop |-> FALSE, steps_run |-> 0,
     entry_steps |-> 0, entry_len |-> 0]

----------------------------------------------------------------------------
(* The store *)

\* store_put with every entry of the dict bound to the same simulation dict
store_put_shared(store, sim_id, sim) ==
    [i \in DOMAIN store \cup {sim_id} |-> sim]

\* self._simulations[sim_id] = sim
store_put(store, sim_id, sim) ==
    [i \in DOMAIN store \cup {sim_id} |-> IF i = sim_id THEN sim ELSE store[i]]

\* store_delete that empties the dict
store_delete_clears(store, sim_id) == [i \in {} |-> store[i]]

\* del self._simulations[sim_id]
store_delete(store, sim_id) ==
    [i \in DOMAIN store \ {sim_id} |-> store[i]]

\* delete that does not look whether the entry is there
delete_unchecked(store, sim_id) == <<TRUE, store_delete(store, sim_id)>>

\* SimulationStore.delete: the returned bool and the store it leaves
delete(store, sim_id) ==
    IF sim_id \in DOMAIN store
    THEN <<TRUE, store_delete(store, sim_id)>>
    ELSE <<FALSE, store>>

\* uuid4 that produces the same identifier again
uuid4_repeats(produced) == {1}

\* sim_id = f"sim_{uuid.uuid4().hex[:12]}": an identifier not produced before;
\* identifiers are opaque, so they are numbered in the order uuid4 makes them
uuid4(produced) == {Cardinality(produced) + 1}

\* the identifiers a request can name: those produced so far and one that
\* was never produced
SimIds == 1..(Cardinality(issued) + 1)

\* operations the model may still execute
OpsLeft == MaxServed - served

\* the server is ready for a request: none is being served and the response
\* of the previous one has been delivered
Idle == req.pc = "idle" /\ resp = NoResponse

\* no library function is being evaluated on its own
NoCall == [fn |-> "none"]

\* no agent is followed on its own
NoAgent == [id |-> -1]

Init ==
    /\ sims = [i \in {} |-> NoState]
    /\ issued = {}
    /\ req = NoRequest
    /\ served = 0
    /\ resp = NoResponse
    /\ call = NoCall
    /\ walker = NoAgent

----------------------------------------------------------------------------
(* POST /simulations *)

\* error_detail that drops the validator's message
error_detail_generic(error_message) == "Invalid simulation configuration"

\* detail = error_message or "Invalid simulation configuration"
error_detail(error_message) ==
    IF error_message = "None" THEN "Invalid simulation configuration"
    ELSE error_message

create_simulation_invalid(config) ==
    /\ Idle
    /\ ~validate_simulation_config(config)[1]
    /\ resp' = Response("create", 0, 400,
                        error_detail(validate_simulation_config(config)[2]), NoState)
    /\ UNCHANGED <<sims, issued, req, served, call, walker>>

create_simulation_created(config) ==
    /\ Idle
    /\ validate_simulation_config(config)[1]
    /\ OpsLeft >= 1
    /\ served' = served + 1
    /\ \E sim_id \in uuid4(issued) :
          /\ sims' = store_put(sims, sim_id, create(sim_id, config))
          /\ issued' = issued \cup {sim_id}
          /\ resp' = Response("create", sim_id, 201, "", NoState)
    /\ UNCHANGED <<req, call, walker>>

create_simulation ==
    \E config \in ConfigRequests :
        \/ create_simulation_invalid(config)
        \/ create_simulation_created(config)

----------------------------------------------------------------------------
(* POST /simulations/{simulation_id}/step *)

\* step_rejected without the check
step_never_rejected(sim_data) == FALSE

step_rejected(sim_data) == sim_data.status = "completed"

run_simulation_step_not_found(simulation_id) ==
    /\ Idle
    /\ simulation_id \notin DOMAIN sims
    /\ resp' = Response("step", simulation_id, 404, "Simulation not found", NoState)
    /\ UNCHANGED <<sims, issued, req, served, call, walker>>

run_simulation_step_completed(simulation_id) ==
    /\ Idle
    /\ simulation_id \in DOMAIN sims
    /\ step_rejected(sims[simulation_id])
    /\ resp' = Response("step", simulation_id, 400,
                        "Simulation has already completed (no infected/exposed remaining)",
                        NoState)
    /\ UNCHANGED <<sims, issued, req, served, call, walker>>

run_simulation_step_done(simulation_id) ==
    /\ Idle
    /\ simulation_id \in DOMAIN sims
    /\ ~step_rejected(sims[simulation_id])
    /\ OpsLeft >= 1
    /\ served' = served + 1
    /\ \E sim \in run_step_results(sims[simulation_id]) :
          /\ sims' = store_put(sims, simulation_id, sim)
          /\ resp' = Response("step", simulation_id, 200, "",
                              build_simulation_state(sim))
    /\ UNCHANGED <<issued, req, call, walker>>

run_simulation_step ==
    \/ \E simulation_id \in SimIds : run_simulation_step_not_found(simulation_id)
    \/ \E simulation_id \in SimIds : run_simulation_step_completed(simulation_id)
    \/ \E simulation_id \in SimIds : run_simulation_step_done(simulation_id)

----------------------------------------------------------------------------
(* POST /simulations/{simulation_id}/run *)

\* days of a SimulationRunRequest, in thousandths; 0 stands for None
DaysChoices == {0, 100, 1000}

\* steps of a SimulationRunRequest; 0 stands for None
RunRequests ==
    [steps : 1..MaxServed, days : {0}, stop_when_no_infected : BOOLEAN]
    \cup [steps : {0}, days : DaysChoices, stop_when_no_infected : BOOLEAN]
    \cup [steps : {1}, days : {1000}, stop_when_no_infected : BOOLEAN]

run_rejected(sim_data) == sim_data.status = "completed"

\* max_steps as run_simulation derives it from the request
run_max_steps(run_config, dt) ==
    IF run_config.steps # 0 THEN run_config.steps
    ELSE IF run_config.days # 0 THEN run_config.days \div dt
    ELSE (100 * Unit) \div dt

\* stop_condition that breaks whatever stop_when_no_infected says
stop_condition_ignores_flag(run_config_stop, sim_data) ==
    /\ Last(sim_data.stats.I) = 0
    /\ Last(sim_data.stats.E) = 0

\* stop_condition that does not look at the exposed count
stop_condition_infected_only(run_config_stop, sim_data) ==
    /\ run_config_stop
    /\ Last(sim_data.stats.I) = 0

\* the check after each step of the loop that breaks out of it
stop_condition(run_config_stop, sim_data) ==
    /\ run_config_stop
    /\ Last(sim_data.stats.I) = 0
    /\ Last(sim_data.stats.E) = 0

run_simulation_not_found(simulation_id) ==
    /\ Idle
    /\ simulation_id \notin DOMAIN sims
    /\ resp' = Response("run", simulation_id, 404, "Simulation not found", NoState)
    /\ UNCHANGED <<sims, issued, req, served, call, walker>>

run_simulation_completed(simulation_id) ==
    /\ Idle
    /\ simulation_id \in DOMAIN sims
    /\ run_rejected(sims[simulation_id])
    /\ resp' = Response("run", simulation_id, 400,
                        "Simulation has already completed", NoState)
    /\ UNCHANGED <<sims, issued, req, served, call, walker>>

\* the request is accepted and max_steps is determined; range(0) is empty,
\* so a request for no step returns at once
run_simulation_begin(simulation_id, run_config) ==
    /\ Idle
    /\ simulation_id \in DOMAIN sims
    /\ ~run_rejected(sims[simulation_id])
    /\ LET max_steps == run_max_steps(run_config, sims[simulation_id].config.time_step)
       IN  /\ max_steps <= OpsLeft
           /\ IF max_steps > 0
              THEN /\ req' = [pc |-> "loop", id |-> simulation_id,
                              max_steps |-> max_steps,
                              stop |-> run_config.stop_when_no_infected,
                              steps_run |-> 0,
                              entry_steps |-> sims[simulation_id].total_steps,
                              entry_len |-> Len(sims[simulation_id].stats.S)]
                   /\ UNCHANGED resp
              ELSE /\ req' = [pc |-> "done", id |-> simulation_id,
                              max_steps |-> max_steps,
                              stop |-> run_config.stop_when_no_infected,
                              steps_run |-> 0,
                              entry_steps |-> sims[simulation_id].total_steps,
                              entry_len |-> Len(sims[simulation_id].stats.S)]
                   /\ resp' = Response("run", simulation_id, 200, "",
                                       build_simulation_state(sims[simulation_id]))
    /\ UNCHANGED <<sims, issued, served, call, walker>>

\* one iteration of `for _ in range(max_steps)`; after the iteration that
\* breaks out of the loop or exhausts the range the state is returned
run_simulation_iterate ==
    /\ req.pc = "loop"
    /\ req.steps_run < req.max_steps
    /\ req.id \in DOMAIN sims
    /\ served' = served + 1
    /\ \E sim \in run_step_results(sims[req.id]) :
          /\ sims' = store_put(sims, req.id, sim)
          /\ IF stop_condition(req.stop, sim) \/ req.steps_run + 1 = req.max_steps
             THEN /\ req' = [req EXCEPT !.steps_run = @ + 1, !.pc = "done"]
                  /\ resp' = Response("run", req.id, 200, "",
                                      build_simulation_state(sim))
             ELSE /\ req' = [req EXCEPT !.steps_run = @ + 1]
                  /\ UNCHANGED resp
    /\ UNCHANGED <<issued, call, walker>>

run_simulation ==
    \/ \E simulation_id \in SimIds : run_simulation_not_found(simulation_id)
    \/ \E simulation_id \in SimIds : run_simulation_completed(simulation_id)
    \/ \E simulation_id \in SimIds, run_config \in RunRequests :
          run_simulation_begin(simulation_id, run_config)
    \/ run_simulation_iterate

----------------------------------------------------------------------------
(* DELETE /simulations/{simulation_id} *)

\* success = simulation_store.delete(simulation_id); if not success: 404
delete_simulation_not_found(simulation_id) ==
    /\ Idle
    /\ ~delete(sims, simulation_id)[1]
    /\ sims' = delete(sims, simulation_id)[2]
    /\ resp' = Response("delete", simulation_id, 404, "Simulation not found", NoState)
    /\ UNCHANGED <<issued, req, served, call, walker>>

delete_simulation_deleted(simulation_id) ==
    /\ Idle
    /\ delete(sims, simulation_id)[1]
    /\ OpsLeft >= 1
    /\ served' = served + 1
    /\ sims' = delete(sims, simulation_id)[2]
    /\ resp' = Response("delete", simulation_id, 204, "", NoState)
    /\ UNCHANGED <<issued, req, call, walker>>

delete_simulation ==
    \/ \E simulation_id \in SimIds : delete_simulation_not_found(simulation_id)
    \/ \E simulation_id \in SimIds : delete_simulation_deleted(simulation_id)

----------------------------------------------------------------------------
(* Epidemic analytics: EpidemicStats (stats_utils.py) and the private       *)
(* helpers of SimulationService, called on their own.  Values are kept in   *)
(* thousandths; np.log is taken from a table of 1000 * ln(n).               *)

DEFAULT_RT_WINDOW == 7

RT_WINDOW == 7

MIN_CASES_FOR_STATS == 5

\* 1000 * ln(n) for n = 1..12
ln_milli == <<0, 693, 1099, 1386, 1609, 1792, 1946, 2079, 2197, 2303, 2398, 2485>>

\* np.log(a / b) for counts a > 0, b > 0
log_ratio(a, b) == ln_milli[a] - ln_milli[b]

\* counts[-n:]
last_n(counts, n) == SubSeq(counts, Len(counts) - n + 1, Len(counts))

\* counts[:n]
first_n(counts, n) == SubSeq(counts, 1, Min(n, Len(counts)))

\* window_steps = max(int(window_days / time_step), 2)
window_steps(window_days, time_step) == Max((window_days * Unit) \div time_step, 2)

\* counts[-window_steps:] if len(counts) >= window_steps else counts
recent_window(counts, steps) ==
    IF Len(counts) >= steps THEN last_n(counts, steps) ELSE counts

SetMin(S) == CHOOSE k \in S : \A j \in S : k <= j

SetMax(S) == CHOOSE k \in S : \A j \in S : k >= j

\* 1 + lambda_growth * infectious_period, with
\* lambda_growth = np.log(i_end / i_start) / time_span
growth_to_r(i_end, i_start, time_span, infectious_period) ==
    Unit + (log_ratio(i_end, i_start) * infectious_period) \div time_span

\* EpidemicStats.calculate_rt
calculate_rt(infected_counts, infectious_period, time_step, window_days) ==
    IF Len(infected_counts) < 2 THEN 0
    ELSE LET recent_infected ==
                 recent_window(infected_counts, window_steps(window_days, time_step))
             time_span == (Len(recent_infected) - 1) * time_step
         IN  IF Len(recent_infected) < 2 \/ recent_infected[1] <= 0 THEN 0
             \* growth_factor > 0 iff the last count is positive
             ELSE IF time_span > 0 /\ Last(recent_infected) > 0
             THEN Max(0, growth_to_r(Last(recent_infected), recent_infected[1],
                                     time_span, infectious_period))
             ELSE Unit

\* SimulationService._calculate_rt; np.log(0.0) is -inf, which makes rt -inf
\* and max(0, rt) zero
service_calculate_rt(infected_counts, infectious_period, dt) ==
    IF Len(infected_counts) < 2 THEN 0
    ELSE LET recent_infected ==
                 recent_window(infected_counts, window_steps(RT_WINDOW, dt))
             time_span == (Len(recent_infected) - 1) * dt
         IN  IF Len(recent_infected) >= 2 /\ recent_infected[1] > 0
             THEN IF time_span > 0
                  THEN IF Last(recent_infected) = 0 THEN 0
                       ELSE Max(0, growth_to_r(Last(recent_infected),
                                               recent_infected[1], time_span,
                                               infectious_period))
                  ELSE Unit
             ELSE Unit

\* EpidemicStats.estimate_r0
estimate_r0(infected_counts, infectious_period, time_step, population) ==
    IF Len(infected_counts) < 2 \/ population = 0 THEN 0
    ELSE LET early_phase_end ==
                 Max(Min(Len(infected_counts) \div 10, (20 * Unit) \div time_step), 5)
             early_infected == first_n(infected_counts, early_phase_end)
             valid_indices == {k \in 1..Len(early_infected) :
                                  early_infected[k] > MIN_CASES_FOR_STATS}
         IN  IF Cardinality(valid_indices) < 2 THEN Unit
             ELSE LET i_start == early_infected[SetMin(valid_indices)]
                      i_end == early_infected[SetMax(valid_indices)]
                      time_diff ==
                          (SetMax(valid_indices) - SetMin(valid_indices)) * time_step
                  IN  IF time_diff > 0 /\ i_start > 0
                      THEN Max(500, Min(growth_to_r(i_end, i_start, time_diff,
                                                    infectious_period),
                                        10 * Unit))
                      ELSE Unit

\* SimulationService._estimate_r0
service_estimate_r0(infected_counts, infectious_period, dt, population) ==
    IF Len(infected_counts) < 2 \/ population = 0 THEN 0
    ELSE LET early_phase_end == Max(Min(Len(infected_counts) \div 10, 20), 5)
             early_infected == first_n(infected_counts, early_phase_end)
             valid_indices == {k \in 1..Len(early_infected) : early_infected[k] > 0}
         IN  IF Cardinality(valid_indices) >= 2
             THEN LET i_start == early_infected[SetMin(valid_indices)]
                      i_end == early_infected[SetMax(valid_indices)]
                      time_diff ==
                          (SetMax(valid_indices) - SetMin(valid_indices)) * dt
                  IN  IF time_diff > 0 /\ i_start > 0
                      THEN Max(0, growth_to_r(i_end, i_start, time_diff,
                                              infectious_period))
                      ELSE Unit
             ELSE Unit

\* the Optional[float] values: None, and a float
None == << >>

Some(value) == <<value>>

\* the loop of SimulationService._calculate_doubling_time from index i on
\* (counts[i] here is infected_counts[i - 1] there)
RECURSIVE service_doubling_scan(_, _, _)
service_doubling_scan(infected_counts, i, dt) ==
    IF i > Len(infected_counts) THEN None
    ELSE IF infected_counts[i] > infected_counts[i - 1] /\ infected_counts[i - 1] > 0
    THEN LET growth_indices == {k \in i..Len(infected_counts) :
                                   infected_counts[k] > infected_counts[i]}
         IN  IF /\ growth_indices # {}
                /\ infected_counts[SetMax(growth_indices)] >= 2 * infected_counts[i]
             THEN Some((SetMax(growth_indices) - i) * dt)
             ELSE service_doubling_scan(infected_counts, i + 1, dt)
    ELSE service_doubling_scan(infected_counts, i + 1, dt)

\* SimulationService._calculate_doubling_time
service_calculate_doubling_time(infected_counts, dt) ==
    IF Len(infected_counts) < 2 THEN None
    ELSE service_doubling_scan(infected_counts, 2, dt)

\* the loop of EpidemicStats.calculate_doubling_time from index i on
\* (infected_array[i] here is infected_array[i - 1] there)
RECURSIVE doubling_scan(_, _, _)
doubling_scan(infected_array, i, time_step) ==
    IF i > Len(infected_array) THEN None
    ELSE IF /\ infected_array[i] > infected_array[i - 1]
            /\ infected_array[i - 1] > MIN_CASES_FOR_STATS
    THEN LET baseline == infected_array[i]
             doubling_threshold == 2 * baseline
             future_indices == {k \in i..Len(infected_array) :
                                   infected_array[k] >= doubling_threshold}
         IN  IF future_indices # {}
             THEN Some((SetMin(future_indices) - i) * time_step)
             ELSE doubling_scan(infected_array, i + 1, time_step)
    ELSE doubling_scan(infected_array, i + 1, time_step)

\* EpidemicStats.calculate_doubling_time
calculate_doubling_time(infected_counts, time_step) ==
    IF Len(infected_counts) < 2 THEN None
    ELSE doubling_scan(infected_counts, 2, time_step)

\* EpidemicStats.calculate_attack_rate, a percentage in thousandths
calculate_attack_rate(susceptible_start, susceptible_end, deceased) ==
    IF susceptible_start = 0 THEN 0
    ELSE LET total_infected == susceptible_start - susceptible_end
             attack_rate == (total_infected * 100 * Unit) \div susceptible_start
         IN  Min(100 * Unit, Max(0, attack_rate))

RECURSIVE series_sum(_)
series_sum(values) ==
    IF Len(values) = 0 THEN 0 ELSE values[1] + series_sum(Tail(values))

\* the Rt of every entry of the history
recent_rt_whole_history(metrics_history) ==
    [k \in 1..Len(metrics_history) |-> metrics_history[k].rt]

\* recent_rt = [m.rt for m in metrics_history[-3:]]
recent_rt(metrics_history) ==
    LET n == Min(3, Len(metrics_history))
    IN  [k \in 1..n |-> metrics_history[Len(metrics_history) - n + k].rt]

\* SimulationService.calculate_trend; np.mean(recent_rt) is compared with 1.1
\* and 0.9 after multiplying both sides by len(recent_rt)
service_calculate_trend(metrics_history) ==
    IF Len(metrics_history) < 2 THEN "stable"
    ELSE LET rts == recent_rt(metrics_history)
         IN  IF series_sum(rts) > 1100 * Len(rts) THEN "increasing"
             ELSE IF series_sum(rts) < 900 * Len(rts) THEN "decreasing"
             ELSE "stable"

\* np.max(counts)
series_max(counts) == SetMax({counts[k] : k \in 1..Len(counts)})

\* np.argmax(counts): the first index of the maximum, counted from 0
series_argmax(counts) ==
    SetMin({k \in 1..Len(counts) : counts[k] = series_max(counts)}) - 1

\* growth_rate of calculate_epidemic_metrics
metrics_growth_rate(i_counts) ==
    IF Len(i_counts) >= 2
    THEN LET recent_infected ==
                 IF Len(i_counts) >= 7 THEN last_n(i_counts, 7) ELSE i_counts
         IN  IF Len(recent_infected) > 1
             THEN ((Last(recent_infected) - recent_infected[1]) * Unit)
                      \div (IF recent_infected[1] > 0 THEN recent_infected[1] ELSE 1)
             ELSE 0
    ELSE 0

\* the exception a call ends with instead of returning
Raised(exception) == [raised |-> exception]

\* SimulationService.calculate_epidemic_metrics; rates and percentages in
\* thousandths, days as the integers int() gives
calculate_epidemic_metrics(statistics, config) ==
    LET i_counts == statistics.infected
        r_counts == statistics.recovered
        d_counts == statistics.deceased
        total_population == config.population_size
    IN  IF Len(r_counts) = 0 \/ Len(d_counts) = 0 THEN Raised("IndexError")
        ELSE
        LET total_infected == Last(r_counts) + Last(d_counts)
            infected_days == Cardinality({k \in 1..Len(i_counts) : i_counts[k] > 0})
            outbreak_duration == (infected_days * config.time_step) \div Unit
        IN  IF config.vaccination_rate > 0 /\ total_population = 0
            THEN Raised("ZeroDivisionError")
            ELSE
            [raised |-> "None",
             r0 |-> service_estimate_r0(i_counts, config.infectious_mean,
                                        config.time_step, total_population),
             rt |-> service_calculate_rt(i_counts, config.infectious_mean,
                                         config.time_step),
             attack_rate |-> IF total_population > 0
                             THEN (total_infected * 100 * Unit) \div total_population
                             ELSE 0,
             case_fatality_rate |-> IF total_infected > 0
                                    THEN (Last(d_counts) * 100 * Unit)
                                             \div total_infected
                                    ELSE 0,
             doubling_time |-> service_calculate_doubling_time(i_counts,
                                                               config.time_step),
             peak_infected |-> IF Len(i_counts) > 0 THEN series_max(i_counts) ELSE 0,
             peak_day |-> IF Len(i_counts) > 0
                          THEN (series_argmax(i_counts) * config.time_step) \div Unit
                          ELSE 0,
             outbreak_duration |-> outbreak_duration,
             current_infected |-> IF Len(i_counts) > 0 THEN Last(i_counts) ELSE 0,
             current_recovered |-> Last(r_counts),
             current_deceased |-> Last(d_counts),
             vaccination_coverage |->
                 IF config.vaccination_rate > 0
                 THEN (Min(config.vaccination_rate * outbreak_duration
                               * total_population,
                           total_population * Unit) * 100) \div total_population
                 ELSE 0,
             growth_rate |-> metrics_growth_rate(i_counts)]

----------------------------------------------------------------------------
(* GET /simulations, /simulations/{simulation_id}, .../stats, .../agents *)

\* SimulationStore.get that takes the entry out of the dict (pop for get)
store_get_pops(store, sim_id) == [i \in DOMAIN store \ {sim_id} |-> store[i]]

\* the store as SimulationStore.get leaves it: `self._simulations.get(sim_id)`
store_get(store, sim_id) == store

\* the store as SimulationStore.list_all leaves it
store_list_all(store) == store

\* the client has the response of its read and may repeat the read at once
ReadReady(op, simulation_id) ==
    /\ req.pc = "idle"
    /\ resp = NoResponse \/ (resp.op = op /\ resp.id = simulation_id)

\* the SimulationStats that get_simulation_stats builds
simulation_stats(sim_data) ==
    [susceptible |-> Last(sim_data.stats.S),
     exposed |-> Last(sim_data.stats.E),
     infected |-> Last(sim_data.stats.I),
     recovered |-> Last(sim_data.stats.R),
     deceased |-> Last(sim_data.stats.D),
     susceptible_history |-> sim_data.stats.S,
     exposed_history |-> sim_data.stats.E,
     infected_history |-> sim_data.stats.I,
     recovered_history |-> sim_data.stats.R,
     deceased_history |-> sim_data.stats.D,
     current_rt |-> IF Len(sim_data.rt_history) > 0
                    THEN Last(sim_data.rt_history) ELSE 0,
     rt_history |-> sim_data.rt_history]

\* response.agents = [a for a in response.agents if a.state != DECEASED]
without_deceased(agents) == SelectSeq(agents, LAMBDA a : a.state # "D")

build_agents_response(sim_data, include_deceased) ==
    [current_day |-> sim_data.current_day,
     agents |-> IF include_deceased THEN sim_data.agents
                ELSE without_deceased(sim_data.agents),
     include_deceased |-> include_deceased,
     grid_size |-> sim_data.config.grid_size]

\* the SimulationListResponse: the states in the order of the dict, which
\* is the order of creation, and their number
simulation_list(store) ==
    [simulations |-> [i \in DOMAIN store |-> build_simulation_state(store[i])],
     count |-> Cardinality(DOMAIN store)]

list_simulations ==
    /\ ReadReady("list", 0)
    /\ sims' = store_list_all(sims)
    /\ resp' = Response("list", 0, 200, "", simulation_list(sims))
    /\ UNCHANGED <<issued, req, served, call, walker>>

get_simulation_not_found(simulation_id) ==
    /\ ReadReady("get_state", simulation_id)
    /\ simulation_id \notin DOMAIN sims
    /\ sims' = store_get(sims, simulation_id)
    /\ resp' = Response("get_state", simulation_id, 404, "Simulation not found",
                        NoState)
    /\ UNCHANGED <<issued, req, served, call, walker>>

get_simulation_found(simulation_id) ==
    /\ ReadReady("get_state", simulation_id)
    /\ simulation_id \in DOMAIN sims
    /\ sims' = store_get(sims, simulation_id)
    /\ resp' = Response("get_state", simulation_id, 200, "",
                        build_simulation_state(sims[simulation_id]))
    /\ UNCHANGED <<issued, req, served, call, walker>>

get_simulation ==
    \/ \E simulation_id \in SimIds : get_simulation_not_found(simulation_id)
    \/ \E simulation_id \in SimIds : get_simulation_found(simulation_id)

get_simulation_stats_not_found(simulation_id) ==
    /\ ReadReady("stats", simulation_id)
    /\ simulation_id \notin DOMAIN sims
    /\ sims' = store_get(sims, simulation_id)
    /\ resp' = Response("stats", simulation_id, 404, "Simulation not found", NoState)
    /\ UNCHANGED <<issued, req, served, call, walker>>

get_simulation_stats_found(simulation_id) ==
    /\ ReadReady("stats", simulation_id)
    /\ simulation_id \in DOMAIN sims
    /\ sims' = store_get(sims, simulation_id)
    /\ resp' = Response("stats", simulation_id, 200, "",
                        simulation_stats(sims[simulation_id]))
    /\ UNCHANGED <<issued, req, served, call, walker>>

get_simulation_stats ==
    \/ \E simulation_id \in SimIds : get_simulation_stats_not_found(simulation_id)
    \/ \E simulation_id \in SimIds : get_simulation_stats_found(simulation_id)

get_simulation_agents_not_found(simulation_id) ==
    /\ ReadReady("agents", simulation_id)
    /\ simulation_id \notin DOMAIN sims
    /\ sims' = store_get(sims, simulation_id)
    /\ resp' = Response("agents", simulation_id, 404, "Simulation not found", NoState)
    /\ UNCHANGED <<issued, req, served, call, walker>>

get_simulation_agents_found(simulation_id, include_deceased) ==
    /\ ReadReady("agents", simulation_id)
    /\ simulation_id \in DOMAIN sims
    /\ sims' = store_get(sims, simulation_id)
    /\ resp' = Response("agents", simulation_id, 200, "",
                        build_agents_response(sims[simulation_id], include_deceased))
    /\ UNCHANGED <<issued, req, served, call, walker>>

get_simulation_agents ==
    \/ \E simulation_id \in SimIds : get_simulation_agents_not_found(simulation_id)
    \/ \E simulation_id \in SimIds, include_deceased \in BOOLEAN :
          get_simulation_agents_found(simulation_id, include_deceased)

\* the SimulationStatistics of a stored simulation
simulation_statistics(sim_data) ==
    [susceptible |-> sim_data.stats.S,
     exposed |-> sim_data.stats.E,
     infected |-> sim_data.stats.I,
     recovered |-> sim_data.stats.R,
     deceased |-> sim_data.stats.D,
     rt_history |-> sim_data.rt_history]

\* the metrics computation on demand: calculate_epidemic_metrics on the
\* statistics and config of a registered simulation, as
\* transform_simulation_to_api_response calls it on a simulation's output (no
\* route of simulations.py calls it; the read of the store is store.get)
metrics_of_simulation(simulation_id) ==
    /\ ReadReady("metrics", simulation_id)
    /\ simulation_id \in DOMAIN sims
    /\ sims' = store_get(sims, simulation_id)
    /\ resp' = Response("metrics", simulation_id, 200, "",
                        calculate_epidemic_metrics(
                            simulation_statistics(sims[simulation_id]),
                            sims[simulation_id].config))
    /\ UNCHANGED <<issued, req, served, call, walker>>

get_metrics == \E simulation_id \in SimIds : metrics_of_simulation(simulation_id)

----------------------------------------------------------------------------

\* the client receives the response of the request it made
deliver_response ==
    /\ resp # NoResponse
    /\ resp' = NoResponse
    /\ req' = NoRequest
    /\ UNCHANGED <<sims, issued, served, call, walker>>

Next ==
    \/ deliver_response
    \/ create_simulation
    \/ run_simulation_step
    \/ run_simulation
    \/ delete_simulation
    \/ list_simulations
    \/ get_simulation
    \/ get_simulation_stats
    \/ get_simulation_agents
    \/ get_metrics

Spec == Init /\ [][Next]_vars

----------------------------------------------------------------------------
(* SimulationService.validate_simulation_config called on its own *)

\* configurations as SimulationConfig.model_construct builds them (no field
\* constraint applied): per field a value every check accepts and values
\* that violate a check
ValidatorConfigs ==
    [population_size : {9, 10},
     grid_size : {10 * Unit, 100 * Unit},
     initial_infected : {0, 1, 10},
     infection_rate : {0, Unit, 6 * Unit},
     incubation_mean : {0, 5 * Unit, 360 * Unit},
     incubation_std : {-Unit, 2 * Unit},
     infectious_mean : {0, 7 * Unit},
     infectious_std : {-Unit, 3 * Unit},
     mortality_rate : {20, 1500},
     interaction_radius : {0, 2 * Unit},
     vaccination_rate : {0, 1500},
     detection_probability : {0, 1500},
     isolation_compliance : {-100, 800},
     home_attraction : {-50, 50},
     random_movement : {-Unit, Unit},
     time_step : {500, 1500}]

InitValidator ==
    /\ sims = [i \in {} |-> NoState]
    /\ issued = {}
    /\ req = NoRequest
    /\ served = 0
    /\ resp = NoResponse
    /\ walker = NoAgent
    /\ \E config \in ValidatorConfigs :
          call = [fn |-> "validate_simulation_config", config |-> config,
                  returned |-> FALSE, result |-> <<FALSE, "">>]

\* is_valid, error_message = simulation_service.validate_simulation_config(config)
validate_call ==
    /\ call.fn = "validate_simulation_config"
    /\ ~call.returned
    /\ call' = [call EXCEPT !.returned = TRUE,
                            !.result = validate_simulation_config(call.config)]
    /\ UNCHANGED <<sims, issued, req, served, resp, walker>>

NextValidator == validate_call

SpecValidator == InitValidator /\ [][NextValidator]_vars

----------------------------------------------------------------------------
(* One agent followed through _create_mock_agents and the loop of run_step. *)
(* The position of an agent is read and written by its own loop iteration   *)
(* only, so the agents move independently of each other; the state the      *)
(* iteration assigns depends on the counts, and is left open here.          *)

\* sample values of random.uniform(a, b): both ends, the middle, the quarters
uniform(a, b) ==
    {a, (3 * a + b) \div 4, (a + b) \div 2, (a + 3 * b) \div 4, b}

\* clamp without the lower limit
clamp_upper_only(value, grid_size) == Min(grid_size, value)

\* max(0, min(config.grid_size, value))
clamp(value, grid_size) == Max(0, Min(grid_size, value))

\* whether the loop body moves the agent
moves(a) == a.state # "D" /\ ~a.is_isolated

\* agent["x"] += random.uniform(-1, 1) * dt, likewise y, then the clamping;
\* ux and uy are the two values of random.uniform(-1, 1), in thousandths
move_agent(a, config, ux, uy) ==
    IF moves(a)
    THEN [a EXCEPT
             !.x = clamp(@ + (ux * config.time_step) \div Unit, config.grid_size),
             !.y = clamp(@ + (uy * config.time_step) \div Unit, config.grid_size)]
    ELSE a

\* grid_size at its minimum, both ends of the time step range used
AgentConfigs ==
    {[DefaultConfig EXCEPT !.grid_size = 20 * Unit, !.time_step = dt] :
        dt \in {500, Unit}}

\* the dict _create_mock_agents appends for agent i
create_mock_agent(i, config, x, y) ==
    [id |-> i, x |-> x, y |-> y,
     state |-> IF i < config.initial_infected THEN "I" ELSE "S",
     days_in_state |-> 0, is_isolated |-> FALSE]

InitAgent ==
    /\ sims = [i \in {} |-> NoState]
    /\ issued = {}
    /\ req = NoRequest
    /\ served = 0
    /\ resp = NoResponse
    /\ \E config \in AgentConfigs, i \in {0, 1} :
       \E x \in uniform(0, config.grid_size), y \in uniform(0, config.grid_size) :
          /\ call = [fn |-> "run_step", config |-> config, steps |-> 0,
                     clamped |-> FALSE]
          /\ walker = create_mock_agent(i, config, x, y)

\* one iteration of `for agent in agents` for the agent followed; clamped
\* records that a position left the grid before it was clamped
agent_step ==
    /\ call.fn = "run_step"
    /\ call.steps < MaxAgentSteps
    /\ \E dest \in States \cup {"none"}, ux \in uniform(-Unit, Unit),
          uy \in uniform(-Unit, Unit) :
          LET a == update_agent(walker, dest, call.config.time_step)
              raw_x == a.x + (ux * call.config.time_step) \div Unit
              raw_y == a.y + (uy * call.config.time_step) \div Unit
              outside == \/ raw_x < 0 \/ raw_x > call.config.grid_size
                         \/ raw_y < 0 \/ raw_y > call.config.grid_size
          IN  /\ walker' = move_agent(a, call.config, ux, uy)
              /\ call' = [call EXCEPT !.steps = @ + 1,
                                      !.clamped = @ \/ (moves(a) /\ outside)]
    /\ UNCHANGED <<sims, issued, req, served, resp>>

NextAgent == agent_step

SpecAgent == InitAgent /\ [][NextAgent]_vars

----------------------------------------------------------------------------
(* SimulationStore.run_step on one simulation, step after step, with one     *)
(* infected agent among ten                                                   *)

\* the default configuration with an incubation of one time step: an exposed
\* agent is infectious one step later
TickConfig == [DefaultConfig EXCEPT !.incubation_mean = 500]

InitTicks ==
    /\ \E sim_id \in uuid4({}) :
          /\ validate_simulation_config(TickConfig)[1]
          /\ sims = store_put([i \in {} |-> NoState], sim_id,
                              create(sim_id, TickConfig))
          /\ issued = {sim_id}
    /\ req = NoRequest
    /\ served = 0
    /\ resp = NoResponse
    /\ call = NoCall
    /\ walker = NoAgent

\* simulation_store.run_step(sim_id), whatever the status of the simulation
store_run_step ==
    \E sim_id \in DOMAIN sims :
        /\ sims[sim_id].total_steps < MaxTicks
        /\ \E sim \in run_step_results(sims[sim_id]) :
              sims' = store_put(sims, sim_id, sim)
        /\ UNCHANGED <<issued, req, served, resp, call, walker>>

NextTicks == store_run_step

SpecTicks == InitTicks /\ [][NextTicks]_vars

----------------------------------------------------------------------------
(* The analytics functions called on their own *)

\* the counts of the series given to the analytics
CountValues == {0, 1, 6, 12}

\* the series of at most MaxSeriesLen samples
InfectedSeries ==
    UNION {[1..n -> CountValues] : n \in 0..MaxSeriesLen}

AnalyticsFunctions ==
    {"calculate_rt", "service_calculate_rt", "estimate_r0", "service_estimate_r0"}

\* time steps: the default and one so long that the 7 days window is two
\* samples
AnalyticsTimeSteps == {500, 3500}

\* the calls of the Rt and R0 functions
ReproductionCalls ==
    {[fn |-> fn, infected_counts |-> infected_counts,
      infectious_period |-> infectious_period,
      time_step |-> time_step, population |-> population,
      returned |-> FALSE, result |-> 0] :
        fn \in AnalyticsFunctions, infected_counts \in InfectedSeries,
        infectious_period \in {Unit, 7 * Unit},
        time_step \in AnalyticsTimeSteps, population \in {0, 100}}

\* counts for the doubling time: below and above MIN_CASES_FOR_STATS, with
\* the doubles of 6 and 7
DoublingValues == {0, 1, 6, 7, 12, 14}

DoublingSeries ==
    UNION {[1..n -> DoublingValues] : n \in 0..MaxSeriesLen}

\* the calls of the two doubling time functions
DoublingCalls ==
    {[fn |-> fn, infected_counts |-> infected_counts, time_step |-> time_step,
      returned |-> FALSE, result |-> None] :
        fn \in {"calculate_doubling_time", "service_calculate_doubling_time"},
        infected_counts \in DoublingSeries, time_step \in {500, Unit}}

\* the calls of calculate_attack_rate: a final susceptible count below, at
\* and above the initial one
AttackRateCalls ==
    {[fn |-> "calculate_attack_rate", susceptible_start |-> susceptible_start,
      susceptible_end |-> susceptible_end, deceased |-> deceased,
      returned |-> FALSE, result |-> 0] :
        susceptible_start \in {0, 10, 100}, susceptible_end \in {0, 10, 100, 120},
        deceased \in {0, 5}}

\* infected series of the statistics given to calculate_epidemic_metrics
MetricsInfected ==
    UNION {[1..n -> {0, 6}] : n \in 0..MaxSeriesLen}

\* the recovered and the deceased series: empty, and ending with 0 or 60
MetricsFinals == {<< >>, <<0>>, <<0, 60>>}

\* the calls of calculate_epidemic_metrics; the susceptible and exposed
\* series are only copied by it
MetricsCalls ==
    {[fn |-> "calculate_epidemic_metrics",
      statistics |-> [susceptible |-> recovered, exposed |-> recovered,
                      infected |-> infected, recovered |-> recovered,
                      deceased |-> deceased, rt_history |-> << >>],
      config |-> [population_size |-> population_size,
                  infectious_mean |-> 7 * Unit, time_step |-> time_step,
                  vaccination_rate |-> vaccination_rate],
      returned |-> FALSE, result |-> None] :
        infected \in MetricsInfected, recovered \in MetricsFinals,
        deceased \in MetricsFinals, population_size \in {0, 100},
        time_step \in {500, Unit}, vaccination_rate \in {0, 100}}

\* the Rt of the metrics of a history: 0.5, 1.0, 1.125 and 2.0, which binary
\* floating point holds exactly
RtValues == {500, 1000, 1125, 2000}

\* the calls of SimulationService.calculate_trend; of each EpidemicMetrics
\* only rt is read
TrendCalls ==
    {[fn |-> "service_calculate_trend", metrics_history |-> metrics_history,
      returned |-> FALSE, result |-> ""] :
        metrics_history \in
            UNION {[1..n -> [rt : RtValues]] : n \in 0..MaxSeriesLen}}

InitAnalytics ==
    /\ sims = [i \in {} |-> NoState]
    /\ issued = {}
    /\ req = NoRequest
    /\ served = 0
    /\ resp = NoResponse
    /\ walker = NoAgent
    /\ \/ call \in ReproductionCalls
       \/ call \in DoublingCalls
       \/ call \in AttackRateCalls
       \/ call \in MetricsCalls
       \/ call \in TrendCalls

\* window_days is left None, which selects DEFAULT_RT_WINDOW
calculate_rt_call ==
    /\ call.fn = "calculate_rt"
    /\ ~call.returned
    /\ call' = [call EXCEPT
                   !.returned = TRUE,
                   !.result = calculate_rt(call.infected_counts,
                                           call.infectious_period,
                                           call.time_step, DEFAULT_RT_WINDOW)]
    /\ UNCHANGED <<sims, issued, req, served, resp, walker>>

service_calculate_rt_call ==
    /\ call.fn = "service_calculate_rt"
    /\ ~call.returned
    /\ call' = [call EXCEPT
                   !.returned = TRUE,
                   !.result = service_calculate_rt(call.infected_counts,
                                                   call.infectious_period,
                                                   call.time_step)]
    /\ UNCHANGED <<sims, issued, req, served, resp, walker>>

estimate_r0_call ==
    /\ call.fn = "estimate_r0"
    /\ ~call.returned
    /\ call' = [call EXCEPT
                   !.returned = TRUE,
                   !.result = estimate_r0(call.infected_counts,
                                          call.infectious_period,
                                          call.time_step, call.population)]
    /\ UNCHANGED <<sims, issued, req, served, resp, walker>>

service_estimate_r0_call ==
    /\ call.fn = "service_estimate_r0"
    /\ ~call.returned
    /\ call' = [call EXCEPT
                   !.returned = TRUE,
                   !.result = service_estimate_r0(call.infected_counts,
                                                  call.infectious_period,
                                                  call.time_step, call.population)]
    /\ UNCHANGED <<sims, issued, req, served, resp, walker>>

calculate_doubling_time_call ==
    /\ call.fn = "calculate_doubling_time"
    /\ ~call.returned
    /\ call' = [call EXCEPT
                   !.returned = TRUE,
                   !.result = calculate_doubling_time(call.infected_counts,
                                                      call.time_step)]
    /\ UNCHANGED <<sims, issued, req, served, resp, walker>>

service_calculate_doubling_time_call ==
    /\ call.fn = "service_calculate_doubling_time"
    /\ ~call.returned
    /\ call' = [call EXCEPT
                   !.returned = TRUE,
                   !.result = service_calculate_doubling_time(call.infected_counts,
                                                              call.time_step)]
    /\ UNCHANGED <<sims, issued, req, served, resp, walker>>

calculate_attack_rate_call ==
    /\ call.fn = "calculate_attack_rate"
    /\ ~call.returned
    /\ call' = [call EXCEPT
                   !.returned = TRUE,
                   !.result = calculate_attack_rate(call.susceptible_start,
                                                    call.susceptible_end,
                                                    call.deceased)]
    /\ UNCHANGED <<sims, issued, req, served, resp, walker>>

\* the call returns the metrics or ends with the exception result.raised names
calculate_epidemic_metrics_call ==
    /\ call.fn = "calculate_epidemic_metrics"
    /\ ~call.returned
    /\ call' = [call EXCEPT
                   !.returned = TRUE,
                   !.result = calculate_epidemic_metrics(call.statistics,
                                                         call.config)]
    /\ UNCHANGED <<sims, issued, req, served, resp, walker>>

service_calculate_trend_call ==
    /\ call.fn = "service_calculate_trend"
    /\ ~call.returned
    /\ call' = [call EXCEPT
                   !.returned = TRUE,
                   !.result = service_calculate_trend(call.metrics_history)]
    /\ UNCHANGED <<sims, issued, req, served, resp, walker>>

NextAnalytics ==
    \/ calculate_rt_call
    \/ service_calculate_rt_call
    \/ estimate_r0_call
    \/ service_estimate_r0_call
    \/ calculate_doubling_time_call
    \/ service_calculate_doubling_time_call
    \/ calculate_attack_rate_call
    \/ calculate_epidemic_metrics_call
    \/ service_calculate_trend_call

SpecAnalytics == InitAnalytics /\ [][NextAnalytics]_vars

----------------------------------------------------------------------------
(* Properties *)

Registered == DOMAIN sims

Ticks(sim) == 1..Len(sim.stats.S)

\* C1: every entry of every simulation's compartment history, tick 0
\* included, has S + E + I + R + D equal to the configured population_size
\* and no negative count.
C1_Conservation ==
    \A id \in Registered :
        LET st == sims[id].stats
        IN  /\ Len(st.E) = Len(st.S) /\ Len(st.I) = Len(st.S)
            /\ Len(st.R) = Len(st.S) /\ Len(st.D) = Len(st.S)
            /\ \A t \in Ticks(sims[id]) :
                  /\ st.S[t] + st.E[t] + st.I[t] + st.R[t] + st.D[t]
                         = sims[id].config.population_size
                  /\ st.S[t] >= 0 /\ st.E[t] >= 0 /\ st.I[t] >= 0
                  /\ st.R[t] >= 0 /\ st.D[t] >= 0

\* a step has moved agents into E and into D
C1_Witness ==
    \E id \in Registered :
        /\ sims[id].total_steps >= 1
        /\ Last(sims[id].stats.E) > 0
        /\ Last(sims[id].stats.D) > 0

\* C2: each of the five compartment series and rt_history has exactly
\* total_steps + 1 entries.
C2_HistoryLength ==
    \A id \in Registered :
        LET sim == sims[id]
        IN  /\ Len(sim.stats.S) = sim.total_steps + 1
            /\ Len(sim.stats.E) = sim.total_steps + 1
            /\ Len(sim.stats.I) = sim.total_steps + 1
            /\ Len(sim.stats.R) = sim.total_steps + 1
            /\ Len(sim.stats.D) = sim.total_steps + 1
            /\ Len(sim.rt_history) = sim.total_steps + 1

\* a simulation has been stepped as often as the bound allows
C2_Witness ==
    \E id \in Registered :
        /\ sims[id].total_steps = MaxServed - 1
        /\ Len(sims[id].stats.S) = MaxServed
        /\ Len(sims[id].rt_history) = MaxServed

\* C3: a step or run request on a Completed simulation is answered with an
\* error (400) and leaves the store, hence that simulation's tick counter,
\* current day, history, agents and status, unchanged; no run loop is
\* entered for it.
C3_CompletedRejected ==
    [][Idle =>
          /\ \A id \in Registered :
                (/\ sims[id].status = "completed"
                 /\ resp'.op \in {"step", "run"}
                 /\ resp'.id = id)
                => (resp'.code = 400 /\ sims' = sims /\ req' = req)
          /\ (req'.pc = "loop" =>
                 /\ req'.id \in Registered
                 /\ sims[req'.id].status # "completed")]_vars

\* a step or run request has been refused on a Completed simulation
C3_Witness ==
    /\ resp.op \in {"step", "run"}
    /\ resp.code = 400
    /\ resp.id \in Registered
    /\ sims[resp.id].status = "completed"

\* C4: within one run request no step is executed on a simulation that is
\* already Completed, whatever stop_when_no_infected is.
C4_NoStepOnCompleted ==
    [][(req.pc = "loop" /\ sims' # sims) => sims[req.id].status # "completed"]_vars

\* C5: the status is Completed exactly when at least one step has been
\* executed and the latest Infected and Exposed counts are both 0; after a
\* step that leaves Infected + Exposed > 0 it is Running.
C5_CompletedIffExtinct ==
    \A id \in Registered :
        LET sim == sims[id]
            extinct == Last(sim.stats.I) = 0 /\ Last(sim.stats.E) = 0
        IN  /\ sim.status = "completed" <=> (sim.total_steps >= 1 /\ extinct)
            /\ (sim.total_steps >= 1 /\ ~extinct) => sim.status = "running"

\* the first step of a simulation has emptied I and E
C5_Witness ==
    \E id \in Registered :
        /\ sims[id].status = "completed"
        /\ sims[id].total_steps = 1
        /\ Last(sims[id].stats.I) = 0 /\ Last(sims[id].stats.E) = 0

StatusMoves ==
    {<<"created", "created">>, <<"created", "running">>,
     <<"created", "completed">>, <<"running", "running">>,
     <<"running", "completed">>, <<"completed", "completed">>}

\* C6: a simulation starts in Created with total_steps 0, its status only
\* moves Created -> Running, Created -> Completed or Running -> Completed,
\* it is Created only while no step has run, and once Completed it stays so.
C6_StatusMoves ==
    [][\A id \in DOMAIN sims' :
          /\ sims'[id].status = "created" <=> sims'[id].total_steps = 0
          /\ IF id \in Registered
             THEN <<sims[id].status, sims'[id].status>> \in StatusMoves
             ELSE sims'[id].status = "created"]_vars

\* a simulation that was Running after its first step is Completed
C6_Witness ==
    \E id \in Registered :
        /\ sims[id].status = "completed"
        /\ sims[id].total_steps >= 2
        /\ sims[id].stats.I[2] + sims[id].stats.E[2] > 0

\* C7: along a simulation's history the Recovered count and the Deceased
\* count never decrease from one tick to the next.
C7_MonotoneRD ==
    \A id \in Registered :
        \A t \in Ticks(sims[id]) :
            t > 1 => /\ sims[id].stats.R[t] >= sims[id].stats.R[t - 1]
                     /\ sims[id].stats.D[t] >= sims[id].stats.D[t - 1]

\* agents recovered in the first step and fewer in the second
C7_Witness ==
    \E id \in Registered :
        /\ Len(sims[id].stats.R) >= 3
        /\ sims[id].stats.R[2] - sims[id].stats.R[1] >= 2
        /\ sims[id].stats.R[3] - sims[id].stats.R[2] = 1

\* C8: a run request for n steps with stop_when_no_infected = false on a
\* simulation that is not Completed increases total_steps by exactly n and
\* appends exactly n entries to the history.
C8_RunExactSteps ==
    (req.pc = "done" /\ ~req.stop) =>
        /\ req.id \in Registered
        /\ req.steps_run = req.max_steps
        /\ sims[req.id].total_steps = req.entry_steps + req.max_steps
        /\ Len(sims[req.id].stats.S) = req.entry_len + req.max_steps
        /\ Len(sims[req.id].stats.E) = req.entry_len + req.max_steps
        /\ Len(sims[req.id].stats.I) = req.entry_len + req.max_steps
        /\ Len(sims[req.id].stats.R) = req.entry_len + req.max_steps
        /\ Len(sims[req.id].stats.D) = req.entry_len + req.max_steps

\* a run without the stop condition has finished its steps although I and E
\* were empty before the last of them
C8_Witness ==
    /\ req.pc = "done" /\ ~req.stop
    /\ req.max_steps >= 2
    /\ sims[req.id].total_steps = req.entry_steps + req.max_steps
    /\ LET n == Len(sims[req.id].stats.I)
       IN  sims[req.id].stats.I[n - 1] = 0 /\ sims[req.id].stats.E[n - 1] = 0

\* C9: a run request with stop_when_no_infected = true steps until the
\* requested number of steps is executed or a step leaves Infected =
\* Exposed = 0, whichever is first, and no further; when it stops early the
\* returned status is Completed with Infected = 0 and Exposed = 0.
C9_RunStopsWhenExtinct ==
    req.stop =>
        LET sim == sims[req.id]
            extinct == Last(sim.stats.I) = 0 /\ Last(sim.stats.E) = 0
            k == req.steps_run
        IN  /\ sim.total_steps = req.entry_steps + k
            /\ k <= req.max_steps
            \* none of the steps before the last executed one left I = E = 0
            /\ \A j \in 1..(k - 1) :
                  sim.stats.I[req.entry_len + j] + sim.stats.E[req.entry_len + j] > 0
            /\ req.pc = "loop" => (k < req.max_steps /\ ~(k >= 1 /\ extinct))
            /\ req.pc = "done" => (k = req.max_steps \/ extinct)
            /\ (req.pc = "done" /\ k < req.max_steps) =>
                  /\ resp.op = "run" /\ resp.code = 200
                  /\ resp.state.status = "completed"
                  /\ resp.state.infected = 0
                  /\ resp.state.exposed = 0

\* a run with the stop condition has returned before its last requested
\* step, after at least two steps
C9_Witness ==
    /\ req.pc = "done" /\ req.stop
    /\ req.steps_run >= 2
    /\ req.steps_run < req.max_steps
    /\ resp.state.status = "completed"

\* C10: create with a valid configuration registers a new simulation under
\* an identifier no registered simulation uses, with status Created,
\* total_steps 0, current_day 0, the one-entry history S = population_size -
\* initial_infected, E = 0, I = initial_infected, R = 0, D = 0, and exactly
\* initial_infected agents in state I, all others in state S.
C10_Create ==
    [][(Idle /\ resp'.op = "create" /\ resp'.code = 201) =>
          /\ resp'.id \notin Registered
          /\ DOMAIN sims' = Registered \cup {resp'.id}
          /\ \A other \in Registered : sims'[other] = sims[other]
          /\ LET sim == sims'[resp'.id]
                 config == sim.config
             IN  /\ validate_simulation_config(config)[1]
                 /\ sim.status = "created"
                 /\ sim.total_steps = 0
                 /\ sim.current_day = 0
                 /\ sim.stats.S = <<config.population_size - config.initial_infected>>
                 /\ sim.stats.E = <<0>>
                 /\ sim.stats.I = <<config.initial_infected>>
                 /\ sim.stats.R = <<0>>
                 /\ sim.stats.D = <<0>>
                 /\ Len(sim.agents) = config.population_size
                 /\ Cardinality({k \in DOMAIN sim.agents : sim.agents[k].state = "I"})
                        = config.initial_infected
                 /\ \A k \in DOMAIN sim.agents : sim.agents[k].state \in {"I", "S"}]_vars

\* a simulation has been created while another, already stepped, is registered
C10_Witness ==
    /\ resp.op = "create" /\ resp.code = 201
    /\ resp.id \in Registered
    /\ \E other \in Registered \ {resp.id} : sims[other].total_steps >= 1

\* C11: a create request whose configuration the validator rejects is
\* answered with an error (400) that carries the validator's reason, and it
\* registers nothing: the registry and every simulation in it are as before;
\* no simulation is ever registered with a rejected configuration.
C11_InvalidCreateRegistersNothing ==
    [][/\ (Idle /\ resp'.op = "create" /\ resp'.code # 201) =>
            /\ resp'.code = 400
            /\ \E config \in ConfigRequests :
                  /\ ~validate_simulation_config(config)[1]
                  /\ resp'.detail = validate_simulation_config(config)[2]
            /\ resp'.detail # "None"
            /\ resp'.detail # "Invalid simulation configuration"
            /\ sims' = sims
            /\ issued' = issued
       /\ \A id \in DOMAIN sims' :
            validate_simulation_config(sims'[id].config)[1]]_vars

\* a create request has been refused while a stepped simulation is registered
C11_Witness ==
    /\ resp.op = "create" /\ resp.code = 400
    /\ resp.detail = "Initial infected must be less than population size"
    /\ \E id \in Registered : sims[id].total_steps >= 1

NotFoundOps == {"get_state", "stats", "agents", "step", "run", "delete"}

\* C12: get_state, stats, agents, step, run and delete on an identifier that
\* is not registered (never created, or deleted) are answered with NotFound
\* (404) and change nothing: the registry, every simulation in it and the
\* identifiers produced so far are as before, and no run loop is entered.
C12_NotFoundChangesNothing ==
    [][(/\ req.pc = "idle"
        /\ resp' # resp
        /\ resp'.op \in NotFoundOps
        /\ resp'.id \notin Registered) =>
            /\ resp'.code = 404
            /\ sims' = sims
            /\ issued' = issued
            /\ req' = req
            /\ served' = served]_vars

\* a step on a deleted simulation has been answered with NotFound while
\* another simulation is registered
C12_Witness ==
    /\ resp.op = "step" /\ resp.code = 404
    /\ resp.id \in issued \ Registered
    /\ Registered # {}

\* C13: delete on a registered simulation removes exactly that simulation
\* and leaves every other one registered and unchanged; a removed
\* simulation is never registered again, get_state and delete on it are
\* answered with NotFound, and list shows exactly the registered simulations.
C13_DeleteRemovesExactlyOne ==
    [][/\ (Idle /\ resp'.op = "delete" /\ resp'.id \in Registered) =>
            /\ resp'.code = 204
            /\ DOMAIN sims' = Registered \ {resp'.id}
            /\ \A other \in Registered \ {resp'.id} : sims'[other] = sims[other]
       /\ \A id \in issued \ Registered : id \notin DOMAIN sims'
       /\ (/\ req.pc = "idle"
           /\ resp' # resp
           /\ resp'.op \in {"get_state", "delete"}
           /\ resp'.id \in issued \ Registered) => resp'.code = 404
       /\ (resp' # resp /\ resp'.op = "list") =>
            /\ DOMAIN resp'.state.simulations = DOMAIN sims'
            /\ resp'.state.count = Cardinality(DOMAIN sims')
            /\ \A id \in DOMAIN sims' :
                  resp'.state.simulations[id] = build_simulation_state(sims'[id])]_vars

\* a simulation has been deleted while another, already stepped, stays
C13_Witness ==
    /\ resp.op = "delete" /\ resp.code = 204
    /\ resp.id \in issued \ Registered
    /\ \E other \in Registered : sims[other].total_steps >= 1

\* C14: a step, and every step of a run, on one simulation leaves every
\* other registered simulation registered and entirely unchanged (status,
\* total_steps, current_day, history, agents).
C14_OtherSimulationsUnchanged ==
    [][\A id \in Registered :
          (\/ (resp' # resp /\ resp'.op \in {"step", "run"} /\ resp'.id # id)
           \/ (req.pc = "loop" /\ req.id # id)
           \/ (req'.pc = "loop" /\ req'.id # id))
          => (id \in DOMAIN sims' /\ sims'[id] = sims[id])]_vars

\* a run has stepped one simulation while another, already stepped and in a
\* different state, is registered
C14_Witness ==
    /\ req.pc = "done" /\ req.steps_run >= 1
    /\ resp.op = "run" /\ resp.code = 200
    /\ \E other \in Registered \ {req.id} :
          /\ sims[other].total_steps >= 1
          /\ sims[other].stats # sims[req.id].stats

ReadOps == {"get_state", "stats", "agents", "list", "metrics"}

C16_ZeroInfectionRateRejected ==
    (/\ call.fn = "validate_simulation_config"
     /\ call.returned
     /\ call.config.infection_rate = 0
     /\ validate_simulation_config([call.config EXCEPT !.infection_rate = Unit])[1])
    => ~call.result[1]

\* the checks in the order of the claim: whether config violates them
CheckViolated(config) ==
    <<~(10 <= config.population_size /\ config.population_size <= 10000),
      ~(20 * Unit <= config.grid_size /\ config.grid_size <= 500 * Unit),
      ~(0 <= config.infection_rate /\ config.infection_rate <= 5 * Unit),
      ~(config.incubation_mean > 0 /\ config.incubation_std >= 0),
      ~(config.infectious_mean > 0 /\ config.infectious_std >= 0),
      ~(0 <= config.mortality_rate /\ config.mortality_rate <= Unit),
      ~(0 <= config.vaccination_rate /\ config.vaccination_rate <= Unit),
      ~(0 <= config.detection_probability /\ config.detection_probability <= Unit),
      ~(0 <= config.isolation_compliance /\ config.isolation_compliance <= Unit),
      ~(config.interaction_radius > 0),
      ~(0 < config.time_step /\ config.time_step <= Unit),
      ~(config.home_attraction >= 0),
      ~(config.random_movement >= 0),
      ~(config.incubation_mean + config.infectious_mean <= 365 * Unit),
      ~(1 <= config.initial_infected
            /\ config.initial_infected < config.population_size)>>

\* the messages of the checks, in the same order; the last check has one
\* message for initial_infected >= population_size and one for the rest
CheckMessages ==
    <<{"Population size must be between 10 and 10000"},
      {"Grid size must be between 20 and 500"},
      {"Infection rate (beta) must be between 0 and 5"},
      {"Incubation period mean must be > 0 and std >= 0"},
      {"Infectious period mean must be > 0 and std >= 0"},
      {"Mortality rate must be between 0 and 1"},
      {"Vaccination rate must be between 0 and 1"},
      {"Detection probability must be between 0 and 1"},
      {"Isolation compliance must be between 0 and 1"},
      {"Interaction radius must be > 0"},
      {"Time step must be between 0 and 1"},
      {"Home attraction must be >= 0"},
      {"Random movement must be >= 0"},
      {"Total disease duration exceeds 1 year"},
      {"Initial infected must be less than population size",
       "Initial infected must be at least 1 and less than population size"}>>

\* C17: validate_simulation_config returns (False, message) with the message
\* of the first violated check in the order population_size, grid_size,
\* infection_rate, incubation, infectious, mortality_rate, vaccination_rate,
\* detection_probability, isolation_compliance, interaction_radius,
\* time_step, home_attraction, random_movement, total duration,
\* initial_infected; it returns (True, None) exactly when no check is violated.
C17_FirstViolatedCheck ==
    (call.fn = "validate_simulation_config" /\ call.returned) =>
        LET violated == {k \in 1..15 : CheckViolated(call.config)[k]}
        IN  IF violated = {}
            THEN call.result = <<TRUE, "None">>
            ELSE /\ call.result[1] = FALSE
                 /\ \E first \in violated :
                       /\ \A k \in violated : first <= k
                       /\ call.result[2] \in CheckMessages[first]

\* the validator has returned the grid size message for a configuration
\* that violates four checks
C17_Witness ==
    /\ call.fn = "validate_simulation_config" /\ call.returned
    /\ Cardinality({k \in 1..15 : CheckViolated(call.config)[k]}) = 4
    /\ CheckViolated(call.config)[10] /\ CheckViolated(call.config)[11]
    /\ call.result = <<FALSE, "Grid size must be between 20 and 500">>

\* C18: after creation and after any number of steps the x and the y
\* coordinate of an agent lie in [0, grid_size].
C18_AgentInsideGrid ==
    call.fn = "run_step" =>
        /\ 0 <= walker.x /\ walker.x <= call.config.grid_size
        /\ 0 <= walker.y /\ walker.y <= call.config.grid_size

\* an agent has been stepped out of the grid on both axes and sits in the
\* corner (0, grid_size)
C18_Witness ==
    /\ call.fn = "run_step"
    /\ call.steps >= 2
    /\ call.clamped
    /\ walker.x = 0 /\ walker.y = call.config.grid_size

\* C19: the Rt computation, EpidemicStats.calculate_rt as well as
\* SimulationService._calculate_rt, returns 0 whenever the infected series
\* has fewer than 2 samples or the first sample of its recent window is 0.
C19_RtZeroSentinel ==
    (/\ call.fn \in {"calculate_rt", "service_calculate_rt"}
     /\ call.returned
     /\ \/ Len(call.infected_counts) < 2
        \/ recent_window(call.infected_counts,
                         window_steps(DEFAULT_RT_WINDOW, call.time_step))[1] = 0)
    => call.result = 0

\* C20: for every infected series of any length, the one-entry history of a
\* new simulation included, and any valid configuration (population at least
\* 10, time step in (0, 1], positive infectious period) the estimated R0 lies
\* in [0.5, 10.0].
C20_R0Bounded ==
    (/\ call.fn \in {"estimate_r0", "service_estimate_r0"}
     /\ call.returned
     /\ Len(call.infected_counts) >= 1
     /\ call.population >= 10
     /\ 0 < call.time_step /\ call.time_step <= Unit
     /\ call.infectious_period > 0)
    => (500 <= call.result /\ call.result <= 10 * Unit)

\* C21: the doubling time, of EpidemicStats.calculate_doubling_time (floor
\* MIN_CASES_FOR_STATS) as of SimulationService._calculate_doubling_time
\* (floor 0), takes the first consecutive pair that increases strictly from a
\* value above the floor as the baseline and returns (first later index at
\* which the series is at least twice the baseline - baseline index) * dt, or
\* None when there is no such pair or no such index; a result other than None
\* is positive and a constant series gives None.
C21_DoublingTime ==
    (/\ call.fn \in {"calculate_doubling_time", "service_calculate_doubling_time"}
     /\ call.returned)
    => LET counts == call.infected_counts
           floor == IF call.fn = "calculate_doubling_time"
                    THEN MIN_CASES_FOR_STATS ELSE 0
           pairs == {i \in 2..Len(counts) :
                        counts[i] > counts[i - 1] /\ counts[i - 1] > floor}
           base == SetMin(pairs)
           later == {k \in (base + 1)..Len(counts) : counts[k] >= 2 * counts[base]}
       IN  /\ call.result =
                  IF pairs = {} \/ later = {} THEN None
                  ELSE Some((SetMin(later) - base) * call.time_step)
           /\ call.result # None => call.result[1] > 0
           /\ (\A k \in 1..Len(counts) : counts[k] = counts[1])
                  => call.result = None

\* C22: the attack rate, of EpidemicStats.calculate_attack_rate as of
\* calculate_epidemic_metrics, lies in [0, 100] for every combination of the
\* final recovered count, the final deceased count and the population size,
\* and is 0 when its denominator (the initial susceptible count, or
\* population_size) is 0.
C22_AttackRateBounded ==
    /\ (call.fn = "calculate_attack_rate" /\ call.returned)
       => /\ 0 <= call.result /\ call.result <= 100 * Unit
          /\ call.susceptible_start = 0 => call.result = 0
    /\ (/\ call.fn = "calculate_epidemic_metrics"
        /\ call.returned
        /\ call.result.raised = "None")
       => /\ 0 <= call.result.attack_rate
          /\ call.result.attack_rate <= 100 * Unit
          /\ call.config.population_size = 0 => call.result.attack_rate = 0

\* C23: no analytics function fails on degenerate input: on empty or
\* one-sample series and on zero denominators calculate_epidemic_metrics
\* returns its metrics instead of raising, and the EpidemicStats functions and
\* the helpers of the service return a sentinel (0, 1.0 or None).
C23_NoRaiseOnDegenerate ==
    /\ (call.fn = "calculate_epidemic_metrics" /\ call.returned)
       => call.result.raised = "None"
    /\ (/\ call.fn \in AnalyticsFunctions
        /\ call.returned
        /\ Len(call.infected_counts) < 2)
       => call.result \in {0, Unit}
    /\ (/\ call.fn \in {"estimate_r0", "service_estimate_r0"}
        /\ call.returned
        /\ call.population = 0)
       => call.result = 0
    /\ (/\ call.fn \in {"calculate_doubling_time", "service_calculate_doubling_time"}
        /\ call.returned
        /\ Len(call.infected_counts) < 2)
       => call.result = None
    /\ (/\ call.fn = "calculate_attack_rate"
        /\ call.returned
        /\ call.susceptible_start = 0)
       => call.result = 0

\* C24 as stated: SimulationService.calculate_trend classifies a history of
\* any non-zero length by the average of its last 3 Rt samples (all of them
\* when fewer than 3 exist): increasing above 1.1, decreasing below 0.9,
\* stable otherwise.
C24_TrendOfAnyHistory ==
    (/\ call.fn = "service_calculate_trend"
     /\ call.returned
     /\ Len(call.metrics_history) >= 1)
    => LET history == call.metrics_history
           n == Min(3, Len(history))
           total == series_sum([k \in 1..n |-> history[Len(history) - n + k].rt])
       IN  call.result = IF total > 1100 * n THEN "increasing"
                         ELSE IF total < 900 * n THEN "decreasing"
                         ELSE "stable"

\* C24 amended: a history of at least 2 entries is classified by the average
\* of its last 3 Rt samples (both of them when there are 2): increasing above
\* 1.1, decreasing below 0.9, stable otherwise; a history of fewer than 2
\* entries is stable whatever its Rt.
C24_TrendOfLastThree ==
    (call.fn = "service_calculate_trend" /\ call.returned)
    => LET history == call.metrics_history
           n == Min(3, Len(history))
           total == series_sum([k \in 1..n |-> history[Len(history) - n + k].rt])
       IN  IF Len(history) < 2 THEN call.result = "stable"
           ELSE /\ total > 1100 * n => call.result = "increasing"
                /\ total < 900 * n => call.result = "decreasing"
                /\ (900 * n <= total /\ total <= 1100 * n)
                       => call.result = "stable"

\* a history of four entries that starts at Rt 2.0 has been classified as
\* decreasing by its last three
C24_Witness ==
    /\ call.fn = "service_calculate_trend"
    /\ call.returned
    /\ Len(call.metrics_history) >= 4
    /\ call.metrics_history[1].rt = 2 * Unit
    /\ call.result = "decreasing"

\* C30: for every series whose recent window has at least 2 samples and a
\* positive first sample, EpidemicStats.calculate_rt returns more than 1 if
\* the window's last sample exceeds its first, exactly 1 if they are equal and
\* less than 1 if the last sample is smaller than the first.
C30_RtAgainstOne ==
    (/\ call.fn = "calculate_rt"
     /\ call.returned
     /\ Len(call.infected_counts) >= 2)
    => LET recent_infected ==
               recent_window(call.infected_counts,
                             window_steps(DEFAULT_RT_WINDOW, call.time_step))
       IN  (Len(recent_infected) >= 2 /\ recent_infected[1] > 0)
           => /\ Last(recent_infected) > recent_infected[1] => call.result > Unit
              /\ Last(recent_infected) = recent_infected[1] => call.result = Unit
              /\ Last(recent_infected) < recent_infected[1] => call.result < Unit

\* C25: in a simulation whose infection_rate is 0 no step creates an
\* exposure: at every tick the exposed count is 0 and the susceptible count
\* is the initial one.
C25_ZeroRateNoExposure ==
    \A id \in Registered :
        sims[id].config.infection_rate = 0
        => \A t \in Ticks(sims[id]) :
               /\ sims[id].stats.E[t] = 0
               /\ sims[id].stats.S[t] = sims[id].stats.S[1]

\* a simulation with infection_rate 0 has been stepped from a tick at which
\* susceptible and infected agents were both present
C25_Witness ==
    \E id \in Registered :
        /\ sims[id].config.infection_rate = 0
        /\ sims[id].total_steps >= 1
        /\ sims[id].stats.S[1] > 0 /\ sims[id].stats.I[1] > 0
        /\ Last(sims[id].stats.S) = sims[id].stats.S[1]

C27_AgentsAbsorbing ==
    [][\A id \in DOMAIN sims \cap DOMAIN sims' :
          \A k \in 1..Len(sims[id].agents) :
              sims[id].agents[k].state \in {"R", "D"}
              => sims'[id].agents[k].state = sims[id].agents[k].state]_vars

\* C28: an agent whose health state a step changes has days_in_state 0 at
\* the end of that step, and an agent whose state the step does not change
\* has its days_in_state increased by exactly dt.
C28_DaysInState ==
    [][\A id \in DOMAIN sims \cap DOMAIN sims' :
          sims'[id].total_steps # sims[id].total_steps
          => \A k \in 1..Len(sims[id].agents) :
                 LET before == sims[id].agents[k]
                     after == sims'[id].agents[k]
                 IN  IF after.state # before.state
                     THEN after.days_in_state = 0
                     ELSE after.days_in_state
                              = before.days_in_state + sims[id].config.time_step]_vars

\* C29: after creation and after every step the agent list has exactly
\* population_size agents with the ids 0..population_size-1, and the number
\* of agents in each health state is the latest count of that state in the
\* compartment history.
C29_AgentsMatchCounts ==
    \A id \in Registered :
        LET sim == sims[id]
        IN  /\ Len(sim.agents) = sim.config.population_size
            /\ \A k \in 1..Len(sim.agents) : sim.agents[k].id = k - 1
            /\ \A s \in States :
                   Cardinality({k \in 1..Len(sim.agents) : sim.agents[k].state = s})
                       = Last(sim.stats[s])

\* two steps have moved agents, and agents are now in E, I, R and D
C29_Witness ==
    \E id \in Registered :
        /\ sims[id].total_steps >= 2
        /\ \A s \in {"E", "I", "R", "D"} :
               /\ Last(sims[id].stats[s]) > 0
               /\ \E k \in 1..Len(sims[id].agents) : sims[id].agents[k].state = s

====
